---- MODULE Spec2Model ----
(***************************************************************************)
(* TWACore: the two time-weighted-average calculators of OSH-Monitor.      *)
(*                                                                         *)
(*   FastTWA    a circular buffer with a running float sum (live display)  *)
(*   ExportTWA  a CSV parser and a duration-weighted aggregator (reports)  *)
(*                                                                         *)
(* Spec        is the FastTWA object: construction, addSample,             *)
(*             updateSamplingInterval.                                     *)
(* SpecExport  is one call of ExportTWA::calculateFromCSV on a CSV text.   *)
(***************************************************************************)
EXTENDS Integers, Sequences, FiniteSets, TLC

VARIABLES
    \* ---- FastTWA (TWACore.h:110-116)
    _samplingInterval,  \* uint16_t, seconds between samples
    _bufferSize,        \* size_t, capacity
    _buffer,            \* std::vector<float>
    _bufferIndex,       \* size_t, write position once full
    _bufferFull,        \* bool
    _sum,               \* float, running sum
    \* ---- history of the calls made on the FastTWA object
    fed,                \* every value passed to addSample, oldest first
    nUpdate,            \* number of updateSamplingInterval calls
    lastResize,         \* "none", "shrink" or "grow": the last capacity change
    sinceResize,        \* addSample calls since construction or that change
    heldAtResize,       \* the values held, oldest first, just before that change
    \* ---- ExportTWA::calculateFromCSV
    pc,                 \* "fast" (not in use), "call" or "done"
    params,             \* _parameterNames
    gapInterval,        \* the samplingInterval given to the constructor
    utcOffset,          \* _utcOffset
    csvData,            \* the text handed to calculateFromCSV
    exportStart,        \* unsigned long argument
    exportEnd,          \* unsigned long argument
    result,             \* the TWAExportResult returned
    local               \* locals of the call: samples, periodStart, periodEnd

fastVars == <<_samplingInterval, _bufferSize, _buffer, _bufferIndex,
              _bufferFull, _sum, fed, nUpdate, lastResize, sinceResize,
              heldAtResize>>
exportVars == <<pc, params, gapInterval, utcOffset, csvData, exportStart,
                exportEnd, result, local>>
vars == <<fastVars, exportVars>>

----------------------------------------------------------------------------
(* Bounds of the model *)

\* addSample calls in one behaviour
MaxSamples == 13
\* updateSamplingInterval calls in one behaviour
MaxUpdates == 1
\* data rows of a CSV text written to exercise the aggregation
MaxRows == 3
\* data rows of a CSV text written to exercise the parser
MaxParserRows == 2
\* data rows of a CSV text sampled every 60 s
ShiftRows == 10

(* Program constants *)

TWA_WINDOW_SECONDS == 28800

\* Sampling intervals tried: 2400 s gives capacity 12 (28800 = 12 * 2400);
\* 2619 s gives capacity 10 (28800 = 10 * 2619 + 2610); 3000 s gives 9, which
\* calculateBufferSize raises to 10.
Intervals == {2400, 2619, 3000}

\* Values fed to addSample.  2^24 is the first float whose successor is not
\* the next integer, so 2^24 + 1 is not a float.
Values == {1, 2^24}

----------------------------------------------------------------------------
(* float: IEEE-754 binary32, round to nearest, ties to even, on the        *)
(* integer-valued floats the model uses.                                   *)

Abs(x) == IF x < 0 THEN -x ELSE x

RECURSIVE Ulp(_)
\* the spacing of binary32 at magnitude a: 1 below 2^24, doubling per binade
Ulp(a) == IF a < 2^24 THEN 1 ELSE 2 * Ulp(a \div 2)

\* the float nearest to the integer x
F32(x) ==
    LET a  == Abs(x)
        u  == Ulp(a)
        q  == a \div u
        r  == a % u
        up == (2 * r > u) \/ (2 * r = u /\ q % 2 = 1)
        m  == IF up THEN q + 1 ELSE q
    IN  IF x < 0 THEN -(m * u) ELSE m * u

----------------------------------------------------------------------------
(* Sequences *)

Min(a, b) == IF a < b THEN a ELSE b

\* the last n elements of s, in order
LastN(s, n) == SubSeq(s, Len(s) - n + 1, Len(s))

RECURSIVE SumSeq(_)
\* the exact sum of a sequence of integers
SumSeq(s) == IF s = <<>> THEN 0 ELSE s[1] + SumSeq(Tail(s))

----------------------------------------------------------------------------
(* FastTWA *)

\* calculateBufferSize dividing to the nearest integer instead of down
calculateBufferSize_nearest(interval) ==
    LET n == (TWA_WINDOW_SECONDS + interval \div 2) \div interval
    IN  IF n < 10 THEN 10 ELSE n

\* FastTWA::calculateBufferSize
calculateBufferSize(interval) ==
    LET n == TWA_WINDOW_SECONDS \div interval
    IN  IF n < 10 THEN 10 ELSE n

\* newBuffer with the copy always starting at the front of the vector, as if
\* the full buffer were never wrapped
newBuffer_fromFront(buf, idx, full, size) ==
    [i \in 1..Min(size, Len(buf)) |-> buf[i]]

\* newBuffer keeping every value held, whatever the new capacity
newBuffer_keepAll(buf, idx, full, size) ==
    IF full /\ buf # <<>>
    THEN [i \in 1..Len(buf) |-> buf[((idx + (i - 1)) % Len(buf)) + 1]]
    ELSE buf

\* The loop of updateSamplingInterval that fills newBuffer: the keepCount
\* entries copied, in the order they are pushed.
newBuffer(buf, idx, full, size) ==
    LET keepCount == Min(size, Len(buf))
    IN  IF full /\ buf # <<>>
        THEN [i \in 1..keepCount |->
                 buf[((idx + Len(buf) - keepCount + (i - 1)) % Len(buf)) + 1]]
        ELSE [i \in 1..keepCount |-> buf[i]]

RECURSIVE floatSum(_, _)
\* "_sum = 0.0f; for (float value : _buffer) _sum += value;"
floatSum(acc, s) ==
    IF s = <<>> THEN acc ELSE floatSum(F32(acc + s[1]), Tail(s))

\* fullAfterResize one short: full with a slot still free
fullAfterResize_early(buf, size) == Len(buf) + 1 >= size

\* what updateSamplingInterval sets _bufferFull to after a resize
fullAfterResize(buf, size) == Len(buf) >= size

\* The values held, oldest first: from the write index round to it once the
\* buffer is full, from the front while it fills.
held ==
    IF _bufferFull
    THEN [i \in 1..Len(_buffer) |->
             _buffer[((_bufferIndex + i - 1) % Len(_buffer)) + 1]]
    ELSE _buffer

\* updateSamplingInterval rebuilding the buffer at every call, the capacity
\* changed or not
updateSamplingInterval_always(newInterval) ==
    /\ pc = "fast"
    /\ nUpdate < MaxUpdates
    /\ LET oldSize == _bufferSize
           size    == calculateBufferSize(newInterval)
           nb      == newBuffer(_buffer, _bufferIndex, _bufferFull, size)
       IN  /\ _samplingInterval' = newInterval
           /\ _bufferSize' = size
           /\ _buffer' = nb
           /\ _bufferIndex' = 0
           /\ _bufferFull' = fullAfterResize(nb, size)
           /\ _sum' = floatSum(0, nb)
           /\ lastResize' = IF size < oldSize THEN "shrink"
                            ELSE IF size > oldSize THEN "grow"
                            ELSE lastResize
           /\ sinceResize' = IF size # oldSize THEN 0 ELSE sinceResize
           /\ heldAtResize' = IF size # oldSize THEN held ELSE heldAtResize
    /\ nUpdate' = nUpdate + 1
    /\ UNCHANGED <<fed, exportVars>>

\* FastTWA::updateSamplingInterval(newInterval)
updateSamplingInterval(newInterval) ==
    /\ pc = "fast"
    /\ nUpdate < MaxUpdates
    /\ LET oldSize == _bufferSize
           size    == calculateBufferSize(newInterval)
           nb      == newBuffer(_buffer, _bufferIndex, _bufferFull, size)
       IN  /\ _samplingInterval' = newInterval
           /\ _bufferSize' = size
           /\ IF size # oldSize
              THEN /\ _buffer' = nb
                   /\ _bufferIndex' = 0
                   /\ _bufferFull' = fullAfterResize(nb, size)
                   /\ _sum' = floatSum(0, nb)
                   /\ lastResize' = IF size < oldSize THEN "shrink" ELSE "grow"
                   /\ sinceResize' = 0
                   /\ heldAtResize' = held
              ELSE UNCHANGED <<_buffer, _bufferIndex, _bufferFull, _sum,
                               lastResize, sinceResize, heldAtResize>>
    /\ nUpdate' = nUpdate + 1
    /\ UNCHANGED <<fed, exportVars>>

\* nextIndex without the wrap at the capacity
nextIndex_noWrap(idx, size) == idx + 1

\* the index addSample advances to after overwriting a slot
nextIndex(idx, size) == (idx + 1) % size

\* fullAfterPush with > for >=
fullAfterPush_late(len, size) == len > size

\* whether addSample, having appended, marks the buffer full
fullAfterPush(len, size) == len >= size

\* FastTWA::addSample(value), as one of at most `most` calls of a behaviour
addSampleWithin(value, most) ==
    /\ pc = "fast"
    /\ Len(fed) < most
    /\ IF _bufferFull
       THEN /\ _sum' = F32(F32(_sum - _buffer[_bufferIndex + 1]) + value)
            /\ _buffer' = [_buffer EXCEPT ![_bufferIndex + 1] = value]
            /\ _bufferIndex' = nextIndex(_bufferIndex, _bufferSize)
            /\ UNCHANGED _bufferFull
       ELSE /\ _buffer' = Append(_buffer, value)
            /\ _sum' = F32(_sum + value)
            /\ _bufferFull' = fullAfterPush(Len(_buffer) + 1, _bufferSize)
            /\ UNCHANGED _bufferIndex
    /\ fed' = Append(fed, value)
    /\ sinceResize' = sinceResize + 1
    /\ UNCHANGED <<_samplingInterval, _bufferSize, nUpdate, lastResize,
                   heldAtResize, exportVars>>

\* FastTWA::addSample(value)
addSample(value) == addSampleWithin(value, MaxSamples)

\* FastTWA::getCurrentTWA: the quotient _sum / _buffer.size(), kept as the
\* pair <<numerator, denominator>>
getCurrentTWA ==
    IF _buffer = <<>> THEN <<0, 1>> ELSE <<_sum, Len(_buffer)>>

\* FastTWA::hasValidTWA
hasValidTWA == _bufferFull

----------------------------------------------------------------------------
(* unsigned long: 32 bits on the ESP32.  A value is held as the              *)
(* representative of its residue mod 2^32 in -2^31 .. 2^31 - 1 (its two's     *)
(* complement reading), so 2^32 - 5 is held as -5.  The timestamps of the     *)
(* model are far below 2^30 in magnitude: the sum or difference of two        *)
(* representatives is again the representative.                               *)

\* a - b in unsigned long arithmetic
U32Sub(a, b) == a - b

\* a + b in unsigned long arithmetic
U32Add(a, b) == a + b

\* a < b as unsigned long values
U32Less(a, b) == IF (a < 0) = (b < 0) THEN a < b ELSE b < 0

----------------------------------------------------------------------------
(* float values that may exceed 2^31: the pair <<m, e>> is the float       *)
(* m * 2^e, with e = 0 and m < 2^24, or e > 0 and 2^23 <= m < 2^24.         *)
(* Only non-negative floats occur in ExportTWA's sums.                      *)

RECURSIVE Exp2(_)
\* the binary exponent of the spacing Ulp(a)
Exp2(a) == IF a < 2^24 THEN 0 ELSE 1 + Exp2(a \div 2)

\* <<m, e>> brought to the form above (m = 2^24 can come from rounding up)
FCanon(m, e) == IF m = 2^24 THEN <<2^23, e + 1>> ELSE <<m, e>>

RECURSIVE FNormal(_)
\* a pair with a mantissa below 2^23 and e > 0, shifted into the form above
FNormal(f) ==
    IF f[1] = 0 THEN <<0, 0>>
    ELSE IF f[2] > 0 /\ f[1] < 2^23 THEN FNormal(<<2 * f[1], f[2] - 1>>)
    ELSE f

\* the float nearest to n * 2^e, for an integer 0 <= n < 2^31
FRound(n, e) ==
    LET u  == Ulp(n)
        q  == n \div u
        r  == n % u
        up == (2 * r > u) \/ (2 * r = u /\ q % 2 = 1)
    IN  IF n < 2^24 THEN FNormal(<<n, e>>)
        ELSE FCanon(IF up THEN q + 1 ELSE q, e + Exp2(n))

\* the float nearest to the integer n >= 0
FOfInt(n) == FRound(n, 0)

\* conversion of an unsigned long to float.  A representative s < 0 stands
\* for 2^32 + s, which lies in [2^31, 2^32) where the spacing is 2^8.
FOfU32(s) ==
    IF s >= 0 THEN FOfInt(s)
    ELSE LET q  == 2^24 + (s \div 256)
             r  == s % 256
             up == (2 * r > 256) \/ (2 * r = 256 /\ q % 2 = 1)
         IN  FCanon(IF up THEN q + 1 ELSE q, 8)

\* float product a * b, a being a float below 2^7 (a parsed value)
FMul(a, b) == FRound(a[1] * b[1], a[2] + b[2])

\* float sum a + b of non-negative floats
FAdd(a, b) ==
    LET hi == IF a[2] >= b[2] THEN a ELSE b
        lo == IF a[2] >= b[2] THEN b ELSE a
        k  == hi[2] - lo[2]
    IN  IF hi[2] = 0 THEN FOfInt(hi[1] + lo[1])
        ELSE LET big == k > 24
                 q0  == IF big THEN 0 ELSE lo[1] \div (2^k)
                 r0  == IF big THEN lo[1] ELSE lo[1] % (2^k)
                 \* twice the remainder against the spacing 2^k of hi
                 c0  == IF big THEN -1
                        ELSE IF 2 * r0 > 2^k THEN 1
                        ELSE IF 2 * r0 = 2^k THEN 0 ELSE -1
                 s   == hi[1] + q0
             IN  IF s < 2^24
                 THEN FCanon(IF c0 = 1 \/ (c0 = 0 /\ s % 2 = 1)
                             THEN s + 1 ELSE s, hi[2])
                 ELSE LET q1  == s \div 2
                          bit == s % 2
                          up  == bit = 1 /\ (r0 > 0 \/ q1 % 2 = 1)
                      IN  FCanon(IF up THEN q1 + 1 ELSE q1, hi[2] + 1)

FZero == <<0, 0>>

(* A quotient of floats need not be an integer.  It is held normalised:    *)
(* <<0, 0>>, or <<m, e>> with 2^23 <= m < 2^24 and e any integer.           *)

RECURSIVE quotientBits(_, _, _, _)
\* long division: the quotient q and remainder r of the dividend by y are
\* extended bit by bit until q has 26 bits; k counts the bits added
quotientBits(q, r, y, k) ==
    IF q >= 2^25 THEN <<q, r, k>>
    ELSE IF 2 * r >= y THEN quotientBits(2 * q + 1, 2 * r - y, y, k + 1)
    ELSE quotientBits(2 * q, 2 * r, y, k + 1)

\* float quotient a / b for floats a >= 0 and b > 0, rounded to nearest even
FDiv(a, b) ==
    IF a[1] = 0 THEN FZero
    ELSE LET d   == quotientBits(a[1] \div b[1], a[1] % b[1], b[1], 0)
             m   == d[1] \div 4
             low == d[1] % 4
             up  == low = 3 \/ (low = 2 /\ (d[2] > 0 \/ m % 2 = 1))
         IN  FCanon(IF up THEN m + 1 ELSE m, (a[2] - b[2]) - d[3] + 2)

\* the integer n >= 0 as a normalised float
FQOfInt(n) == FDiv(FOfInt(n), <<1, 0>>)

\* q < n and q > n, for a normalised float q >= 0 and an integer 0 < n < 128:
\* with e >= 0 the float is at least 2^23, with e < -24 it is below 1
FQLessInt(q, n) ==
    \/ q[1] = 0
    \/ q[2] < 0 /\ (q[2] < -24 \/ q[1] < n * 2^(-q[2]))

FQGreaterInt(q, n) ==
    /\ q[1] # 0
    /\ q[2] >= 0 \/ (q[2] >= -24 /\ q[1] > n * 2^(-q[2]))

----------------------------------------------------------------------------
(* Arduino String: the sequence of its characters, positions counted from  *)
(* 0 as in the source.  A column name of the header ("timestamp", "pm25",  *)
(* ...) is written as one character.                                       *)

charAt(s, i) == s[i + 1]

RECURSIVE indexOf(_, _, _)
\* String::indexOf(ch, from): -1 when ch does not occur at or after from
indexOf(s, ch, from) ==
    IF from >= Len(s) THEN -1
    ELSE IF charAt(s, from) = ch THEN from
    ELSE indexOf(s, ch, from + 1)

\* String::substring(left, right), left <= right
substring(s, left, right) == SubSeq(s, left + 1, Min(right, Len(s)))

isspace(c) == c \in {" ", "\t", "\r", "\n"}

RECURSIVE trimLeft(_)
trimLeft(s) == IF s # <<>> /\ isspace(Head(s)) THEN trimLeft(Tail(s)) ELSE s

RECURSIVE trimRight(_)
trimRight(s) ==
    IF s # <<>> /\ isspace(s[Len(s)])
    THEN trimRight(SubSeq(s, 1, Len(s) - 1)) ELSE s

\* String::trim
trim(s) == trimRight(trimLeft(s))

DecimalDigits == <<"0", "1", "2", "3", "4", "5", "6", "7", "8", "9">>

isdigit(c) == \E i \in 1..10 : DecimalDigits[i] = c

digitValue(c) == (CHOOSE i \in 1..10 : DecimalDigits[i] = c) - 1

RECURSIVE leadingNumber(_, _)
\* the decimal number the leading digits of s spell, continuing from acc
leadingNumber(s, acc) ==
    IF s = <<>> \/ ~isdigit(Head(s)) THEN acc
    ELSE leadingNumber(Tail(s), 10 * acc + digitValue(Head(s)))

\* String::toInt (atol): optional sign, then the leading digits; 0 if none
toInt(s) ==
    IF s # <<>> /\ Head(s) = "-" THEN -leadingNumber(Tail(s), 0)
    ELSE IF s # <<>> /\ Head(s) = "+" THEN leadingNumber(Tail(s), 0)
    ELSE leadingNumber(s, 0)

\* toFloat with 1.0 for a text that spells no number
toFloat_malformedAsOne(s) ==
    IF s = <<>> \/ ~isdigit(Head(s)) THEN FOfInt(1)
    ELSE FOfInt(leadingNumber(s, 0))

\* String::toFloat (atof), on the unsigned integer texts and the non-numeric
\* texts the model writes into value columns: the leading digits, 0.0 if none
toFloat(s) == FOfInt(leadingNumber(s, 0))

RECURSIVE fieldsFrom(_, _, _)
\* the loop "for (int i = 0; i <= line.length(); i++)" of parseDataPoints:
\* the trimmed fields of the line, one per colIdx, from position i on
fieldsFrom(line, fieldStart, i) ==
    IF i > Len(line) THEN <<>>
    ELSE IF i = Len(line) \/ charAt(line, i) = ","
    THEN <<trim(substring(line, fieldStart, i))>>
             \o fieldsFrom(line, i + 1, i + 1)
    ELSE fieldsFrom(line, fieldStart, i + 1)

----------------------------------------------------------------------------
(* ExportTWA::parseDataPoints *)

NoHeader == [headerParsed |-> FALSE, timestampColumn |-> -1, columnIndex |-> <<>>]

\* columnOf with a column that is missing taken to be the first one
columnOf_orFirst(fieldNames, name) ==
    LET S == {i \in 1..Len(fieldNames) : fieldNames[i] = <<name>>}
    IN  IF S = {} THEN 0 ELSE (CHOOSE i \in S : \A j \in S : j <= i) - 1

\* the colIdx of the last field of the header equal to name, -1 if none
\* (each match overwrites the one before)
columnOf(fieldNames, name) ==
    LET S == {i \in 1..Len(fieldNames) : fieldNames[i] = <<name>>}
    IN  IF S = {} THEN -1 ELSE (CHOOSE i \in S : \A j \in S : j <= i) - 1

\* the header row: timestampColumn and columnIndex
parseHeader(line, names) ==
    LET fieldNames == fieldsFrom(line, 0, 0)
    IN  [headerParsed    |-> TRUE,
         timestampColumn |-> columnOf(fieldNames, "timestamp"),
         columnIndex     |-> [p \in 1..Len(names) |->
                                 columnOf(fieldNames, names[p])]]

\* "Validate that we found all required columns"
headerComplete(hdr) ==
    /\ hdr.timestampColumn # -1
    /\ \A p \in DOMAIN hdr.columnIndex : hdr.columnIndex[p] # -1

\* parseRow with values[p] taken from the p-th column after the first,
\* whatever the header names
parseRow_byPosition(line, hdr, names, slot) ==
    LET field == fieldsFrom(line, 0, 0)
    IN  [assigned  |-> hdr.timestampColumn < Len(field),
         timestamp |-> IF hdr.timestampColumn < Len(field)
                       THEN toInt(field[hdr.timestampColumn + 1])
                       ELSE slot,
         values    |-> [p \in 1..Len(names) |->
                           IF p < Len(field) THEN toFloat(field[p + 1])
                           ELSE FZero]]

\* a data row.  sample.timestamp is assigned only if the row has a field at
\* timestampColumn; otherwise it keeps what the uninitialised local held
\* (slot).  values[p] is assigned from the field at the column of the first
\* parameter mapped to that column, and is 0.0f otherwise.
parseRow(line, hdr, names, slot) ==
    LET field == fieldsFrom(line, 0, 0)
        col(p) == hdr.columnIndex[p]
    IN  [assigned  |-> hdr.timestampColumn < Len(field),
         timestamp |-> IF hdr.timestampColumn < Len(field)
                       THEN toInt(field[hdr.timestampColumn + 1])
                       ELSE slot,
         values    |-> [p \in 1..Len(names) |->
                           IF /\ col(p) < Len(field)
                              /\ \A q \in 1..(p - 1) : col(q) # col(p)
                           THEN toFloat(field[col(p) + 1])
                           ELSE FZero]]

\* "if (validRow && sample.timestamp > 0)", timestamp being unsigned
rowAccepted(sample) == sample.timestamp # 0

\* the MeasurementSample pushed for a parsed row
pushed(row) == [timestamp |-> row.timestamp, values |-> row.values]

RECURSIVE parseLines(_, _, _, _, _, _, _, _, _)
\* the loop "while (lineEnd != -1)" from lineStart on.  stale and junk say
\* what an unassigned sample.timestamp reads: the value left by the row
\* before (stale), or the value junk.  unassigned records that such a read
\* was made.
parseLines(csv, names, stale, junk, lineStart, hdr, samples, slot, unassigned) ==
    LET lineEnd == indexOf(csv, "\n", lineStart)
        line    == trim(substring(csv, lineStart, lineEnd))
        row     == parseRow(line, hdr, names, slot)
        header  == parseHeader(line, names)
    IN  IF lineEnd = -1
        THEN [ok |-> samples # <<>>, samples |-> samples,
              unassigned |-> unassigned]
        ELSE IF line = <<>> \/ Head(line) = "#"
        THEN parseLines(csv, names, stale, junk, lineEnd + 1, hdr, samples,
                        slot, unassigned)
        ELSE IF ~hdr.headerParsed
        THEN IF headerComplete(header)
             THEN parseLines(csv, names, stale, junk, lineEnd + 1, header,
                             samples, slot, unassigned)
             ELSE [ok |-> FALSE, samples |-> samples,
                   unassigned |-> unassigned]
        ELSE parseLines(csv, names, stale, junk, lineEnd + 1, hdr,
                        IF rowAccepted(row)
                        THEN Append(samples, pushed(row)) ELSE samples,
                        IF stale THEN row.timestamp ELSE junk,
                        unassigned \/ ~row.assigned)

parseDataPoints(csv, names, stale, junk) ==
    parseLines(csv, names, stale, junk, 0, NoHeader, <<>>, junk, FALSE)

\* whether the call reads a sample.timestamp that no field was assigned to
readsUnassigned(csv, names) ==
    parseDataPoints(csv, names, FALSE, 0).unassigned

----------------------------------------------------------------------------
(* ExportTWA::calculateWeightedAverage *)

\* "_gapThreshold = samplingInterval * 2" (the constructor)
gapThreshold(samplingInterval) == samplingInterval * 2

\* the pairs not skipped by "if (current.timestamp < periodStart ||
\* current.timestamp >= periodEnd) continue"
inPeriod(current, next, periodStart, periodEnd) ==
    /\ ~U32Less(current.timestamp, periodStart)
    /\ U32Less(current.timestamp, periodEnd)

\* pairValue taking the value of next instead of current
pairValue_next(current, next, paramIndex) == next.values[paramIndex]

\* "float value = current.values[paramIndex]"
pairValue(current, next, paramIndex) == current.values[paramIndex]

\* isGap with >= for >
isGap_atThreshold(duration, threshold) == ~U32Less(duration, threshold)

\* "if (duration > _gapThreshold)"
isGap(duration, threshold) == U32Less(threshold, duration)

RECURSIVE weightedLoop(_, _, _, _, _, _, _)
\* the loop "for (size_t i = 0; i < samples.size() - 1; i++)", i being the
\* position of current in 1..Len(samples) - 1
weightedLoop(samples, i, paramIndex, periodStart, periodEnd, threshold, acc) ==
    IF i >= Len(samples) THEN acc
    ELSE LET current  == samples[i]
             next     == samples[i + 1]
             duration == U32Sub(next.timestamp, current.timestamp)
             value    == pairValue(current, next, paramIndex)
         IN  weightedLoop(samples, i + 1, paramIndex, periodStart, periodEnd,
                 threshold,
                 IF ~inPeriod(current, next, periodStart, periodEnd) THEN acc
                 ELSE [weightedSum |-> FAdd(acc.weightedSum,
                                            FMul(value, FOfU32(duration))),
                       totalTime   |-> U32Add(acc.totalTime, duration),
                       gaps        |-> acc.gaps
                                       + IF isGap(duration, threshold)
                                         THEN 1 ELSE 0])

\* calculateWeightedAverage dividing by the length of the period instead
\* of the total time of the pairs
calculateWeightedAverage_overPeriod(samples, paramIndex, names, periodStart, periodEnd, threshold) ==
    IF samples = <<>> \/ paramIndex > Len(names)
    THEN [twa |-> FZero, gaps |-> 0]
    ELSE LET acc == weightedLoop(samples, 1, paramIndex, periodStart,
                        periodEnd, threshold,
                        [weightedSum |-> FZero, totalTime |-> 0, gaps |-> 0])
         IN  [twa  |-> IF U32Sub(periodEnd, periodStart) # 0
                       THEN FDiv(acc.weightedSum,
                                 FOfU32(U32Sub(periodEnd, periodStart)))
                       ELSE FZero,
              gaps |-> acc.gaps]

\* the value returned and the gaps counted, paramIndex in 1..Len(names)
calculateWeightedAverage(samples, paramIndex, names, periodStart, periodEnd, threshold) ==
    IF samples = <<>> \/ paramIndex > Len(names)
    THEN [twa |-> FZero, gaps |-> 0]
    ELSE LET acc == weightedLoop(samples, 1, paramIndex, periodStart,
                        periodEnd, threshold,
                        [weightedSum |-> FZero, totalTime |-> 0, gaps |-> 0])
         IN  [twa  |-> IF acc.totalTime # 0
                       THEN FDiv(acc.weightedSum, FOfU32(acc.totalTime))
                       ELSE FZero,
              gaps |-> acc.gaps]

----------------------------------------------------------------------------
(* ExportTWA::calculateFromCSV *)

MIN_OSHA_HOURS == 8

\* oshaCompliant with > for >= at the lower limit
oshaCompliant_aboveMin(hours) ==
    /\ FQGreaterInt(hours, MIN_OSHA_HOURS)
    /\ ~FQGreaterInt(hours, 10)

\* "dataCoverageHours >= MIN_OSHA_HOURS && dataCoverageHours <= 10.0f"
oshaCompliant(hours) ==
    /\ ~FQLessInt(hours, MIN_OSHA_HOURS)
    /\ ~FQGreaterInt(hours, 10)

\* exceedsMaxDuration with >= for >
exceedsMaxDuration_atTen(hours) == ~FQLessInt(hours, 10)

\* "dataCoverageHours > 10.0f"
exceedsMaxDuration(hours) == FQGreaterInt(hours, 10)

\* minTimestamp taking the first sample of the file
minTimestamp_first(samples) == samples[1].timestamp

\* the smallest and the largest timestamp, as unsigned long values
minTimestamp(samples) ==
    CHOOSE a \in {samples[i].timestamp : i \in 1..Len(samples)} :
        \A i \in 1..Len(samples) : ~U32Less(samples[i].timestamp, a)

maxTimestamp(samples) ==
    CHOOSE a \in {samples[i].timestamp : i \in 1..Len(samples)} :
        \A i \in 1..Len(samples) : ~U32Less(a, samples[i].timestamp)

\* ExportTWA::formatLocalTime: "%Y-%m-%d_%H:%M:%S" of the shifted timestamp,
\* the date kept as the day number since 1970-01-01, time_t being 64 bits:
\* <<day, hour, minute, second>>.  2^32 = 49710 * 86400 + 23296.
formatLocalTime(timestamp, offset) ==
    LET t    == U32Add(timestamp, offset * 3600)
        day  == IF t >= 0 THEN t \div 86400
                ELSE 49710 + ((t + 23296) \div 86400)
        rest == IF t >= 0 THEN t % 86400 ELSE (t + 23296) % 86400
    IN  <<day, rest \div 3600, (rest % 3600) \div 60, rest % 60>>

\* EmptyResult as "TWAExportResult result;" could leave it: the scalar
\* fields not zeroed
EmptyResult_notZeroed ==
    [parameterTWAs      |-> <<>>,
     dataCoverageHours  |-> FOfInt(1),
     oshaCompliant      |-> TRUE,
     exceedsMaxDuration |-> TRUE,
     samplesAnalyzed    |-> 4660,
     dataGaps           |-> 4660,
     exportStartTime    |-> <<>>,
     exportEndTime      |-> <<>>]

\* "TWAExportResult result = {}"
EmptyResult ==
    [parameterTWAs      |-> <<>>,
     dataCoverageHours  |-> FZero,
     oshaCompliant      |-> FALSE,
     exceedsMaxDuration |-> FALSE,
     samplesAnalyzed    |-> 0,
     dataGaps           |-> 0,
     exportStartTime    |-> <<>>,
     exportEndTime      |-> <<>>]

\* exportResult reporting the gaps of all the passes, not divided by the
\* number of parameters
exportResult_gapsSummed(samples, names, periodStart, periodEnd, threshold, offset) ==
    LET avg == [p \in 1..Len(names) |->
                   calculateWeightedAverage(samples, p, names, periodStart,
                       periodEnd, threshold)]
        RECURSIVE gapSum(_)
        gapSum(p) == IF p = 0 THEN 0 ELSE gapSum(p - 1) + avg[p].gaps
        hours == FDiv(FOfU32(U32Sub(periodEnd, periodStart)), FOfInt(3600))
    IN  [parameterTWAs      |->
             [n \in {names[p] : p \in 1..Len(names)} |->
                 avg[CHOOSE p \in 1..Len(names) :
                         /\ names[p] = n
                         /\ \A q \in (p + 1)..Len(names) : names[q] # n].twa],
         dataCoverageHours  |-> hours,
         oshaCompliant      |-> oshaCompliant(hours),
         exceedsMaxDuration |-> exceedsMaxDuration(hours),
         samplesAnalyzed    |-> Len(samples),
         dataGaps           |-> gapSum(Len(names)),
         exportStartTime    |-> formatLocalTime(periodStart, offset),
         exportEndTime      |-> formatLocalTime(periodEnd, offset)]

\* the result built from a non-empty sample vector
exportResult(samples, names, periodStart, periodEnd, threshold, offset) ==
    LET avg == [p \in 1..Len(names) |->
                   calculateWeightedAverage(samples, p, names, periodStart,
                       periodEnd, threshold)]
        RECURSIVE gapSum(_)
        gapSum(p) == IF p = 0 THEN 0 ELSE gapSum(p - 1) + avg[p].gaps
        hours == FDiv(FOfU32(U32Sub(periodEnd, periodStart)), FOfInt(3600))
    IN  [parameterTWAs      |->
             [n \in {names[p] : p \in 1..Len(names)} |->
                 avg[CHOOSE p \in 1..Len(names) :
                         /\ names[p] = n
                         /\ \A q \in (p + 1)..Len(names) : names[q] # n].twa],
         dataCoverageHours  |-> hours,
         oshaCompliant      |-> oshaCompliant(hours),
         exceedsMaxDuration |-> exceedsMaxDuration(hours),
         samplesAnalyzed    |-> Len(samples),
         dataGaps           |-> IF Len(names) > 0
                                THEN gapSum(Len(names)) \div Len(names)
                                ELSE 0,
         exportStartTime    |-> formatLocalTime(periodStart, offset),
         exportEndTime      |-> formatLocalTime(periodEnd, offset)]

\* The body of calculateFromCSV: the result returned, and the locals it was
\* built from.  stale and junk are what the build makes of the read of an
\* unassigned sample.timestamp.
callOutcome(csv, names, start, end, samplingInterval, offset, stale, junk) ==
    LET parsed      == parseDataPoints(csv, names, stale, junk)
        samples     == parsed.samples
        periodStart == IF start = 0 THEN minTimestamp(samples) ELSE start
        periodEnd   == IF end = 0 THEN maxTimestamp(samples) ELSE end
    IN  IF ~parsed.ok \/ samples = <<>>
        THEN [result |-> EmptyResult,
              local  |-> [parseOk |-> FALSE, samples |-> samples,
                          periodStart |-> 0, periodEnd |-> 0]]
        ELSE [result |-> exportResult(samples, names, periodStart, periodEnd,
                             gapThreshold(samplingInterval), offset),
              local  |-> [parseOk |-> TRUE, samples |-> samples,
                          periodStart |-> periodStart,
                          periodEnd |-> periodEnd]]

\* ExportTWA::calculateFromCSV(csvData, exportStart, exportEnd)
calculateFromCSV(stale, junk) ==
    /\ pc = "call"
    /\ \E out \in {callOutcome(csvData, params, exportStart, exportEnd,
                               gapInterval, utcOffset, stale, junk)} :
          /\ result' = out.result
          /\ local' = out.local
    /\ pc' = "done"
    /\ UNCHANGED <<params, gapInterval, utcOffset, csvData, exportStart,
                   exportEnd, fastVars>>

----------------------------------------------------------------------------
(* ExportTWA: not in use while the FastTWA object is exercised *)

NoResult == [called |-> FALSE]

exportIdle ==
    /\ pc = "fast"
    /\ params = <<>>
    /\ gapInterval = 0
    /\ utcOffset = 0
    /\ csvData = <<>>
    /\ exportStart = 0
    /\ exportEnd = 0
    /\ result = NoResult
    /\ local = NoResult

----------------------------------------------------------------------------
(* The FastTWA object *)

\* FastTWA::FastTWA(samplingInterval)
Init ==
    /\ _samplingInterval \in Intervals
    /\ _bufferSize = calculateBufferSize(_samplingInterval)
    /\ _buffer = <<>>
    /\ _bufferIndex = 0
    /\ _bufferFull = FALSE
    /\ _sum = 0
    /\ fed = <<>>
    /\ nUpdate = 0
    /\ lastResize = "none"
    /\ sinceResize = 0
    /\ heldAtResize = <<>>
    /\ exportIdle

Next ==
    \/ \E value \in Values : addSample(value)
    \/ \E newInterval \in Intervals : updateSamplingInterval(newInterval)

Spec == Init /\ [][Next]_vars

----------------------------------------------------------------------------
(* The CSV texts handed to calculateFromCSV *)

RECURSIVE decimal(_)
\* the decimal text of n >= 0
decimal(n) ==
    IF n < 10 THEN <<DecimalDigits[n + 1]>>
    ELSE decimal(n \div 10) \o <<DecimalDigits[(n % 10) + 1]>>

RECURSIVE csvLine(_)
\* the fields separated by commas
csvLine(fields) ==
    IF Len(fields) = 1 THEN fields[1]
    ELSE fields[1] \o <<",">> \o csvLine(Tail(fields))

RECURSIVE csvText(_)
\* the lines, each ended by a newline
csvText(lines) ==
    IF lines = <<>> THEN <<>>
    ELSE lines[1] \o <<"\n">> \o csvText(Tail(lines))

\* Texts for the aggregation: header timestamp,pm25,pm10 and up to MaxRows
\* rows in any order.  3600 -> 3720 is 120 s, 3600 -> 32400 is 8 h,
\* 7200 -> 43200 is 10 h, 3600 -> 43200 is 11 h; 0 is not a timestamp the
\* parser accepts.
AggregateTimes == {0, 3600, 3720, 7200, 32400, 43200}
AggregateValues == {10, 20}

AggregateRows ==
    UNION {[1..n -> AggregateTimes \X AggregateValues] : n \in 0..MaxRows}

aggregateText(rows) ==
    csvText(<<csvLine(<<<<"timestamp">>, <<"pm25">>, <<"pm10">>>>)>>
            \o [i \in 1..Len(rows) |->
                   csvLine(<<decimal(rows[i][1]), decimal(rows[i][2]),
                             decimal(30)>>)])

\* explicit period bounds: 0 is "use the data"; 32399 and 39601 are one
\* second short of 8 h and one second past 10 h after 3600; 50000 is later
\* than every row
ExportStarts == {0, 3600, 50000}
ExportEnds == {0, 7200, 10800, 32399, 39601}

\* every text, with sampling interval 60 under every period and with
\* sampling interval 1800 under the period of the data
InitAggregate ==
    /\ params = <<"pm25", "pm10">>
    /\ utcOffset = 0
    /\ csvData \in {aggregateText(rows) : rows \in AggregateRows}
    /\ \/ gapInterval = 60 /\ exportStart \in ExportStarts
                           /\ exportEnd \in ExportEnds
       \/ gapInterval = 1800 /\ exportStart = 0 /\ exportEnd = 0

\* Texts for the parser: headers with the columns in file order, reordered
\* among a metadata column, without a timestamp column, without pm10; an
\* optional comment and blank line first; timestamp and value fields that
\* are numbers, negative, or not numbers, with or without blanks around
\* them; rows cut after their first field; a last line with or without its
\* newline.
ParserHeaders ==
    { <<"timestamp", "pm25", "pm10">>,
      <<"pm10", "location", "timestamp", "pm25">>,
      <<"time", "pm25", "pm10">>,
      <<"timestamp", "pm25">> }

\* the parameter lists requested: one name, two names, one name twice
ParserParams == {<<"pm25">>, <<"pm25", "pm10">>, <<"pm25", "pm25">>}

ParserTimestamps ==
    { <<"3", "6", "0", "0">>, <<" ", "7", "2", "0", "0", " ">>, <<"0">>,
      <<"-", "5">>, <<"x">> }

ParserValues == { <<"1", "0">>, <<"x">> }

\* the row whose timestamp field is ts and whose pm25 field is v, laid out
\* under the header, with 30 under pm10 and 9 under any other column;
\* cut = TRUE keeps its first field only
parserRow(header, ts, v, cut) ==
    LET full == [c \in 1..Len(header) |->
                    IF header[c] \in {"timestamp", "time"} THEN ts
                    ELSE IF header[c] = "pm25" THEN v
                    ELSE IF header[c] = "pm10" THEN <<"3", "0">>
                    ELSE <<"9">>]
    IN  csvLine(IF cut THEN <<full[1]>> ELSE full)

ParserRows ==
    UNION {[1..n -> ParserTimestamps \X ParserValues \X BOOLEAN] :
               n \in 0..MaxParserRows}

parserText(header, preamble, rows, newline) ==
    LET body == csvText((IF preamble THEN <<<<"#", "x">>, <<" ">>>> ELSE <<>>)
                    \o <<csvLine([c \in 1..Len(header) |-> <<header[c]>>])>>
                    \o [i \in 1..Len(rows) |->
                           parserRow(header, rows[i][1], rows[i][2],
                                     rows[i][3])])
    IN  IF newline THEN body ELSE SubSeq(body, 1, Len(body) - 1)

InitParser ==
    /\ params \in ParserParams
    /\ gapInterval = 60
    /\ utcOffset = -5
    /\ csvData \in {parserText(h, c, rows, nl) :
                       h \in ParserHeaders, c \in BOOLEAN,
                       rows \in ParserRows, nl \in BOOLEAN}
    /\ exportStart = 0
    /\ exportEnd = 0

\* Texts sampled every 60 s: ShiftRows rows from 3600 on, 60 s apart but
\* for one interval of 500 s after row long and, when double > 0, one
\* interval of exactly 120 s after row double.  The value of pm25
\* alternates between 10 and 20.
shiftTime(k, long, double) ==
    3600 + 60 * (k - 1) + (IF k > long THEN 440 ELSE 0)
         + (IF double > 0 /\ k > double THEN 60 ELSE 0)

shiftText(long, double) ==
    aggregateText([k \in 1..ShiftRows |->
                      <<shiftTime(k, long, double), 10 + 10 * (k % 2)>>])

InitShift ==
    /\ params = <<"pm25", "pm10">>
    /\ gapInterval = 60
    /\ utcOffset = 0
    /\ csvData \in {shiftText(long, double) :
                       long \in {1, 5, ShiftRows - 1}, double \in {0, 3}}
    /\ exportStart = 0
    /\ exportEnd = 0

\* Texts whose rows all hold the same pm25 value: up to MaxConstantRows
\* rows from 3600 on, spaced 0, 60 or 120 s apart, none of which is a gap
\* at sampling interval 60.  16775224 is a value whose product with 60 is
\* not a float.
MaxConstantRows == 4

ConstantValues == {10, 16775224}

constantText(v, n, spacing) ==
    aggregateText([k \in 1..n |-> <<3600 + spacing * (k - 1), v>>])

InitConstant ==
    /\ params = <<"pm25", "pm10">>
    /\ gapInterval = 60
    /\ utcOffset = 0
    /\ csvData \in {constantText(v, n, spacing) :
                       v \in ConstantValues, n \in 1..MaxConstantRows,
                       spacing \in {0, 60, 120}}
    /\ exportStart \in {0, 3660, 50000}
    /\ exportEnd \in {0, 3720}

\* FastTWA: not in use while calculateFromCSV is exercised
fastIdle ==
    /\ _samplingInterval = 0
    /\ _bufferSize = 0
    /\ _buffer = <<>>
    /\ _bufferIndex = 0
    /\ _bufferFull = FALSE
    /\ _sum = 0
    /\ fed = <<>>
    /\ nUpdate = 0
    /\ lastResize = "none"
    /\ sinceResize = 0
    /\ heldAtResize = <<>>

\* an ExportTWA constructed, and the arguments of the call about to be made
InitExport ==
    /\ fastIdle
    /\ pc = "call"
    /\ result = NoResult
    /\ local = NoResult
    /\ (InitAggregate \/ InitParser \/ InitShift \/ InitConstant)

\* what the reads of an unassigned sample.timestamp can give, as
\* <<stale, junk>>: always 0, the timestamp of the row before (0 at the
\* first row), or always the same non-zero value
UnassignedReads == {<<FALSE, 0>>, <<TRUE, 0>>, <<FALSE, 4660>>}

NextExport ==
    \E u \in IF readsUnassigned(csvData, params)
             THEN UnassignedReads ELSE {<<FALSE, 0>>} :
        calculateFromCSV(u[1], u[2])

SpecExport == InitExport /\ [][NextExport]_vars

----------------------------------------------------------------------------
(* Claims about FastTWA *)

\* The rounding error a float summation of the n non-negative values of w
\* can make: n * 2^-24 * (the exact sum), rounded down.
FloatSumError(w) ==
    LET e == SumSeq(w)
    IN  Len(w) * (e \div 2^24) + (Len(w) * (e % 2^24)) \div 2^24

\* C1: with no interval change, once at least `capacity` values have been
\* fed, getCurrentTWA() is the arithmetic mean of the last `capacity` values
\* fed: their sum, to within the rounding of a float summation, divided by
\* `capacity`.
C1_MeanOfLastCapacity ==
    (nUpdate = 0 /\ Len(fed) >= _bufferSize)
        => LET w   == LastN(fed, _bufferSize)
               twa == getCurrentTWA
           IN  /\ twa[2] = Len(w)
               /\ Abs(twa[1] - SumSeq(w)) <= FloatSumError(w)

\* C2: updateSamplingInterval to a smaller capacity leaves the buffer holding
\* the most recent min(oldLength, newCapacity) values fed, oldest first.
C2_ShrinkKeepsMostRecent ==
    (lastResize = "shrink" /\ sinceResize = 0)
        => _buffer = LastN(fed, Min(Len(heldAtResize), _bufferSize))

\* C6: with no capacity change, hasValidTWA() is false after each of the
\* first capacity - 1 addSample calls, true after the capacity-th, and true
\* after every later one.
C6_FullFromCapacityOn ==
    lastResize = "none" => (hasValidTWA <=> Len(fed) >= _bufferSize)

C6_Witness ==
    lastResize = "none" /\ hasValidTWA /\ Len(fed) > _bufferSize

\* C7 as stated: hasValidTWA() is true only if at least `capacity` addSample
\* calls were made since construction or since the last capacity change.
C7_FullOnlyAfterCapacityCallsSinceChange ==
    hasValidTWA => sinceResize >= _bufferSize

\* C7 as amended: hasValidTWA() is true only if at least `capacity` addSample
\* calls were made since construction; the values kept across a capacity
\* change count toward the window.
C7_FullOnlyAfterCapacityCalls ==
    hasValidTWA => Len(fed) >= _bufferSize

C7_Witness ==
    hasValidTWA /\ lastResize # "none" /\ sinceResize < _bufferSize

\* C8: updateSamplingInterval to a larger capacity keeps every value held,
\* in the same chronological order, and leaves hasValidTWA() false; the
\* values fed afterwards are appended to them, and hasValidTWA() is true
\* exactly from the addSample call that brings the number held to the new
\* capacity.
C8_GrowKeepsAllAndRefills ==
    lastResize = "grow"
        => /\ sinceResize = 0 => (held = heldAtResize /\ ~hasValidTWA)
           /\ hasValidTWA <=> Len(heldAtResize) + sinceResize >= _bufferSize
           /\ Len(heldAtResize) + sinceResize <= _bufferSize
                 => held = heldAtResize \o LastN(fed, sinceResize)

C8_Witness ==
    lastResize = "grow" /\ hasValidTWA /\ sinceResize > 0 /\ _bufferIndex > 0

\* C9: whenever hasValidTWA() is true, the window of `capacity` samples at
\* the current interval covers at least 8 hours.
C9_FullWindowCoversEightHours ==
    hasValidTWA => _bufferSize * _samplingInterval >= TWA_WINDOW_SECONDS

----------------------------------------------------------------------------
(* Claims about ExportTWA *)

\* the value of a float read from an integer text below 2^24
valueOf(f) == f[1]

RECURSIVE exactSums(_, _, _, _, _)
\* <<sum of v * (next - current), sum of (next - current)>> in the integers,
\* over the pairs from position i on whose current timestamp is in
\* [periodStart, periodEnd)
exactSums(samples, i, p, periodStart, periodEnd) ==
    IF i >= Len(samples) THEN <<0, 0>>
    ELSE LET rest == exactSums(samples, i + 1, p, periodStart, periodEnd)
             t    == samples[i].timestamp
             d    == samples[i + 1].timestamp - t
         IN  IF periodStart <= t /\ t < periodEnd
             THEN <<valueOf(samples[i].values[p]) * d + rest[1], d + rest[2]>>
             ELSE rest

\* every timestamp of the call is below 2^31, so that its representative is
\* its value
timestampsPlain ==
    /\ local.periodStart >= 0
    /\ local.periodEnd >= 0
    /\ \A i \in 1..Len(local.samples) : local.samples[i].timestamp >= 0

\* C3: for every parameter p, the TWA returned by calculateFromCSV is the
\* quotient of the sum of current.values[p] * (next.timestamp -
\* current.timestamp) by the sum of (next.timestamp - current.timestamp),
\* over the adjacent pairs in file order whose current.timestamp is in
\* [periodStart, periodEnd), as the float nearest to that quotient; it is 0
\* when the total duration is 0.
C3_TWAIsDurationWeightedMean ==
    (pc = "done" /\ local.parseOk /\ timestampsPlain)
        => \A p \in 1..Len(params) :
               LET s   == exactSums(local.samples, 1, p, local.periodStart,
                                    local.periodEnd)
                   twa == result.parameterTWAs[params[p]]
               IN  IF s[2] = 0 THEN twa = FZero
                   ELSE /\ s[1] = 0 \/ (s[1] > 0) = (s[2] > 0)
                        /\ twa = FDiv(FOfInt(Abs(s[1])), FOfInt(Abs(s[2])))

\* periodEnd - periodStart, the unsigned long difference the code forms
coveredSeconds == U32Sub(local.periodEnd, local.periodStart)

seriesFromZero ==
    /\ csvData = aggregateText(<<<<0, 10>>, <<3600, 20>>>>)
    /\ exportStart = 0
    /\ exportEnd = 7200

\* the series [(t=3600, v=10), (t=7200, v=20)] as a CSV text, aggregated
\* over [3600, 10800)
seriesFromHour ==
    /\ csvData = aggregateText(<<<<3600, 10>>, <<7200, 20>>>>)
    /\ exportStart = 3600
    /\ exportEnd = 10800

\* C10 as stated: aggregating the two-sample series [(t=0, v=10),
\* (t=3600, v=20)] over the window [0, 7200) yields a TWA of 10.
C10_SeriesFromZeroYieldsTen ==
    (pc = "done" /\ seriesFromZero)
        => result.parameterTWAs["pm25"] = FQOfInt(10)

\* the samples with the values of the last one replaced by v
withLastValue(samples, v) ==
    [samples EXCEPT ![Len(samples)].values =
        [p \in 1..Len(params) |-> FOfInt(v)]]

\* C10 as amended: the last sample of a series never contributes weight to
\* a TWA (the TWA reported under a name, that of the last position of the
\* name in the parameter list, is the same whatever the values of the last
\* sample), and the series [(t=3600, v=10), (t=7200, v=20)] over
\* [3600, 10800) yields a TWA of 10; the row with timestamp 0 is not
\* accepted, so the series [(t=0, v=10), (t=3600, v=20)] is the single
\* sample (3600, 20) and yields 0.
C10_LastSampleUnweighted ==
    (pc = "done" /\ local.parseOk)
        => /\ \A p \in 1..Len(params), v \in {0, 99} :
                  (\A q \in (p + 1)..Len(params) : params[q] # params[p])
                      => calculateWeightedAverage(
                             withLastValue(local.samples, v), p, params,
                             local.periodStart, local.periodEnd,
                             gapThreshold(gapInterval)).twa
                         = result.parameterTWAs[params[p]]
           /\ seriesFromHour => result.parameterTWAs["pm25"] = FQOfInt(10)
           /\ seriesFromZero => /\ result.samplesAnalyzed = 1
                                /\ result.parameterTWAs["pm25"] = FZero

C10_Witness ==
    /\ pc = "done"
    /\ seriesFromHour
    /\ result.samplesAnalyzed = 2
    /\ result.parameterTWAs["pm25"] = FQOfInt(10)

\* the positions i of the adjacent pairs (samples[i], samples[i + 1]) whose
\* current timestamp is in [periodStart, periodEnd)
pairsInPeriod ==
    {i \in 1..(Len(local.samples) - 1) :
        /\ ~U32Less(local.samples[i].timestamp, local.periodStart)
        /\ U32Less(local.samples[i].timestamp, local.periodEnd)}

\* next.timestamp - current.timestamp of pair i, the unsigned long
\* difference the code forms
pairDuration(i) ==
    U32Sub(local.samples[i + 1].timestamp, local.samples[i].timestamp)

\* the samples are 60 s apart, or exactly 120 s, but for a single interval
\* of 500 s, and the period is that of the data
oneLongInterval ==
    /\ gapInterval = 60 /\ exportStart = 0 /\ exportEnd = 0
    /\ Len(local.samples) >= 3
    /\ Cardinality({i \in 1..(Len(local.samples) - 1) :
                       pairDuration(i) = 500}) = 1
    /\ \A i \in 1..(Len(local.samples) - 1) :
           pairDuration(i) \in {60, 120, 500}

\* C11: a pair of adjacent in-window samples is counted as a gap if and only
\* if next.timestamp - current.timestamp is strictly greater than
\* 2 * samplingInterval: dataGaps is the number of such pairs; with 60 s
\* sampling a series with a single 500 s interval reports dataGaps = 1, an
\* interval of exactly 120 s not being a gap.
C11_GapIffLongerThanTwiceInterval ==
    (pc = "done" /\ local.parseOk)
        => /\ result.dataGaps
                = Cardinality({i \in pairsInPeriod :
                                  U32Less(2 * gapInterval, pairDuration(i))})
           /\ oneLongInterval => result.dataGaps = 1

C11_Witness ==
    /\ pc = "done" /\ local.parseOk
    /\ oneLongInterval
    /\ \E i \in 1..(Len(local.samples) - 1) : pairDuration(i) = 120
    /\ result.dataGaps = 1

\* the characters of the text
written == {csvData[i] : i \in 1..Len(csvData)}

\* the text names no timestamp column, or lacks the column of a requested
\* parameter (column names are written in the header line only)
headerLacksColumn ==
    \/ "timestamp" \notin written
    \/ \E p \in 1..Len(params) : params[p] \notin written

\* C12: if the header line lacks the timestamp column or any one of the
\* requested parameter columns, parseDataPoints yields no samples, whatever
\* data rows follow, and calculateFromCSV returns a result with no TWA
\* entries and zero counts.
C12_MissingColumnYieldsNothing ==
    (pc = "done" /\ headerLacksColumn)
        => /\ ~local.parseOk
           /\ local.samples = <<>>
           /\ DOMAIN result.parameterTWAs = {}
           /\ result.samplesAnalyzed = 0
           /\ result.dataGaps = 0
           /\ result.dataCoverageHours = FZero

\* a header with a timestamp column but without pm10, followed by a row
\* with timestamp 3600
C12_Witness ==
    /\ pc = "done"
    /\ params = <<"pm25", "pm10">>
    /\ "timestamp" \in written /\ "pm10" \notin written
    /\ "6" \in written
    /\ result.samplesAnalyzed = 0
    /\ DOMAIN result.parameterTWAs = {}

\* what calculateFromCSV returns for a text that is a valid header and no
\* data row
resultOfNoData ==
    callOutcome(csvText(<<csvLine([c \in 1..(Len(params) + 1) |->
                              IF c = 1 THEN <<"timestamp">>
                              ELSE <<params[c - 1]>>])>>),
                params, exportStart, exportEnd, gapInterval, utcOffset,
                FALSE, 0).result

\* every line of the text, the last one too, is ended by a newline
newlineEnded == csvData # <<>> /\ csvData[Len(csvData)] = "\n"

\* C13: the outcome a caller of calculateFromCSV observes for a header
\* missing a required column differs from the outcome for a valid header
\* followed by no accepted data row.
C13_ParseFailureDistinguishable ==
    (pc = "done" /\ newlineEnded /\ headerLacksColumn)
        => result # resultOfNoData

----------------------------------------------------------------------------
(* The CSV text read as a table: the rows and cells a reader of the file   *)
(* sees.                                                                   *)

RECURSIVE splitOn(_, _, _)
\* the pieces of s between the occurrences of ch, after the piece cur
splitOn(s, ch, cur) ==
    IF s = <<>> THEN <<cur>>
    ELSE IF Head(s) = ch THEN <<cur>> \o splitOn(Tail(s), ch, <<>>)
    ELSE splitOn(Tail(s), ch, Append(cur, Head(s)))

isTableRow(line) == trim(line) # <<>> /\ Head(trim(line)) # "#"

\* the cells of a line, blanks stripped
cells(line) ==
    LET piece == splitOn(trim(line), ",", <<>>)
    IN  [k \in 1..Len(piece) |-> trim(piece[k])]

\* the newline-terminated lines that are neither blank nor comments: the
\* header, then the data rows
table(csv) ==
    LET piece == splitOn(csv, "\n", <<>>)
        row   == SelectSeq(SubSeq(piece, 1, Len(piece) - 1), isTableRow)
    IN  [header |-> IF row = <<>> THEN <<>> ELSE cells(row[1]),
         rows   |-> [k \in 1..(Len(row) - 1) |-> cells(row[k + 1])]]

\* the column (from 1) under the header name
columnNamed(t, name) ==
    CHOOSE k \in 1..Len(t.header) : t.header[k] = <<name>>

\* a header with exactly one column for the timestamp and for each
\* requested parameter, and data rows that reach the timestamp column
tableComplete(t) ==
    /\ \A n \in {"timestamp"} \cup {params[p] : p \in 1..Len(params)} :
           Cardinality({k \in 1..Len(t.header) : t.header[k] = <<n>>}) = 1
    /\ \A r \in 1..Len(t.rows) :
           Len(t.rows[r]) >= columnNamed(t, "timestamp")

numeral(s) == s # <<>> /\ \A i \in 1..Len(s) : isdigit(s[i])

\* the integer a cell spells; 0 for a cell that spells none
integerOf(cell) ==
    IF numeral(cell) THEN leadingNumber(cell, 0)
    ELSE IF cell # <<>> /\ Head(cell) = "-" /\ numeral(Tail(cell))
    THEN -leadingNumber(Tail(cell), 0)
    ELSE 0

timestampOf(t, r) == integerOf(t.rows[r][columnNamed(t, "timestamp")])

\* the rows of R, a set of row numbers, in file order
inOrder(R) ==
    [k \in 1..Cardinality(R) |->
        CHOOSE r \in R : Cardinality({q \in R : q <= r}) = k]

\* the data rows whose timestamp field spells a strictly positive integer
positiveRows(t) == inOrder({r \in 1..Len(t.rows) : timestampOf(t, r) > 0})

\* C14: a data row is emitted as a sample if and only if the integer value
\* of its timestamp field is strictly positive: the samples emitted are, in
\* order, the rows with a positive timestamp, and no row whose timestamp
\* field is zero, negative or non-numeric is among them.
C14_EmittedIffTimestampPositive ==
    \A t \in {table(csvData)} :
        (pc = "done" /\ tableComplete(t))
            => \A rows \in {positiveRows(t)} :
                   /\ Len(local.samples) = Len(rows)
                   /\ \A i \in 1..Len(rows) :
                          local.samples[i].timestamp = timestampOf(t, rows[i])

\* the data rows the parser emits a sample for: those whose timestamp field
\* spells an integer other than zero
emittedRows(t) == inOrder({r \in 1..Len(t.rows) : timestampOf(t, r) # 0})

\* whether row r has a cell under the header name that spells a number
hasNumber(t, r, name) ==
    /\ Len(t.rows[r]) >= columnNamed(t, name)
    /\ numeral(t.rows[r][columnNamed(t, name)])

\* the number in row r under the header name, as a float
numberIn(t, r, name) == FOfInt(integerOf(t.rows[r][columnNamed(t, name)]))

distinctNames == \A p, q \in 1..Len(params) : params[p] = params[q] => p = q

malformed(t, r, k) ==
    /\ k <= Len(t.header)
    /\ \E p \in 1..Len(params) : t.header[k] = <<params[p]>>
    /\ ~numeral(t.rows[r][k])

\* the text of table t with 0 written in place of every malformed cell
repairedText(t) ==
    csvText(<<csvLine(t.header)>>
            \o [r \in 1..Len(t.rows) |->
                   csvLine([k \in 1..Len(t.rows[r]) |->
                               IF malformed(t, r, k) THEN <<"0">>
                               ELSE t.rows[r][k]])])

sameValue(p) ==
    \A i \in 1..Len(local.samples) :
        local.samples[i].values[p] = local.samples[1].values[p]

\* no interval between adjacent samples of the series is a gap
noGap ==
    \A i \in 1..(Len(local.samples) - 1) :
        ~U32Less(2 * gapInterval, pairDuration(i))

\* the total time of the pairs in the period, without a gap in the series
weightedSeconds ==
    LET RECURSIVE total(_)
        total(i) == IF i = 0 THEN 0
                    ELSE total(i - 1)
                         + IF i \in pairsInPeriod THEN pairDuration(i) ELSE 0
    IN  total(Len(local.samples) - 1)

besideValue(q, v, tol) ==
    v[2] = 0 /\ v[1] >= 2^23
        /\ \E w \in (v[1] - tol)..(v[1] + tol) : q = FQOfInt(w)

C18_NoOutOfOrderPairWeighted ==
    (pc = "done" /\ local.parseOk)
        => \A i \in pairsInPeriod :
               ~U32Less(local.samples[i + 1].timestamp,
                        local.samples[i].timestamp)

\* C19: when parsing yields zero samples, calculateFromCSV returns a fully
\* zero-valued result: oshaCompliant false, exceedsMaxDuration false,
\* samplesAnalyzed 0, dataGaps 0, dataCoverageHours 0, no TWA entry and
\* empty period times.
C19_NoSampleYieldsZeroResult ==
    (pc = "done" /\ local.samples = <<>>)
        => /\ result.oshaCompliant = FALSE
           /\ result.exceedsMaxDuration = FALSE
           /\ result.samplesAnalyzed = 0
           /\ result.dataGaps = 0
           /\ result.dataCoverageHours = FZero
           /\ result.parameterTWAs = <<>>
           /\ result.exportStartTime = <<>>
           /\ result.exportEndTime = <<>>

\* a complete header and two data rows, none of them emitted
C19_Witness ==
    /\ pc = "done"
    /\ local.samples = <<>>
    /\ \E t \in {table(csvData)} :
           /\ t.header = <<<<"timestamp">>, <<"pm25">>, <<"pm10">>>>
           /\ Len(t.rows) = 2
           /\ \A r \in 1..2 : Len(t.rows[r]) = 3
    /\ result.samplesAnalyzed = 0
    /\ ~result.oshaCompliant

\* C20: in every state reachable by addSample and updateSamplingInterval
\* calls, the running sum _sum equals the sum of the values currently held
\* in _buffer, to within the rounding of a float summation of those values.
C20_SumIsSumOfBuffer ==
    Abs(_sum - SumSeq(_buffer)) <= FloatSumError(_buffer)

\* C21: in every reachable state _bufferFull is true if and only if the
\* number of held values equals the capacity _bufferSize, and the number of
\* held values never exceeds _bufferSize.
C21_FullIffLengthIsCapacity ==
    pc = "fast"
        => /\ _bufferFull <=> Len(_buffer) = _bufferSize
           /\ Len(_buffer) <= _bufferSize

\* full again right after a change to a smaller capacity
C21_Witness ==
    /\ lastResize = "shrink" /\ sinceResize = 0
    /\ Len(heldAtResize) > _bufferSize
    /\ _bufferFull /\ Len(_buffer) = _bufferSize

\* C22: the dataGaps reported is the gap count of one pass over the pairs
\* (the first parameter's) and is what the same samples give when only the
\* first parameter is requested: it is not scaled by the parameter count.
C22_GapsOfOnePass ==
    (pc = "done" /\ local.parseOk)
        => /\ result.dataGaps
                = calculateWeightedAverage(local.samples, 1, params,
                      local.periodStart, local.periodEnd,
                      gapThreshold(gapInterval)).gaps
           /\ result.dataGaps
                = exportResult(local.samples, <<params[1]>>,
                      local.periodStart, local.periodEnd,
                      gapThreshold(gapInterval), utcOffset).dataGaps

\* two parameters requested, two gaps among three samples
C22_Witness ==
    /\ pc = "done" /\ local.parseOk
    /\ Len(params) = 2
    /\ Len(local.samples) = 3
    /\ result.dataGaps = 2

\* the timestamps of the parsed samples
timestamps == {local.samples[i].timestamp : i \in 1..Len(local.samples)}

----------------------------------------------------------------------------
(* The FastTWA object over the range of uint16_t intervals: 1 and 65535,   *)
(* 2880 and 2881 on both sides of capacity 10, 28800 and 28801 on both     *)
(* sides of a quotient of 1, 2619 whose quotient 10.997 is cut to 10.      *)

\* addSample calls in one behaviour of SpecCapacity: enough for the write
\* index of a buffer of capacity 10 to wrap to 0 and go on
MaxCapacitySamples == 23

CapacityIntervals == {1, 60, 2619, 2880, 2881, 28800, 28801, 65535}

InitCapacity ==
    /\ _samplingInterval \in CapacityIntervals
    /\ _bufferSize = calculateBufferSize(_samplingInterval)
    /\ _buffer = <<>>
    /\ _bufferIndex = 0
    /\ _bufferFull = FALSE
    /\ _sum = 0
    /\ fed = <<>>
    /\ nUpdate = 0
    /\ lastResize = "none"
    /\ sinceResize = 0
    /\ heldAtResize = <<>>
    /\ exportIdle

NextCapacity ==
    \/ addSampleWithin(1, MaxCapacitySamples)
    \/ \E newInterval \in CapacityIntervals :
           updateSamplingInterval(newInterval)

SpecCapacity == InitCapacity /\ [][NextCapacity]_vars

chronological ==
    /\ timestampsPlain
    /\ \A i \in 1..(Len(local.samples) - 1) :
           local.samples[i].timestamp <= local.samples[i + 1].timestamp

\* C25: no time after periodEnd is weighted: the total duration accumulated
\* by calculateWeightedAverage over the pairs in the period never exceeds
\* periodEnd - periodStart (the unsigned difference), also when an explicit exportEnd falls between
\* two samples (shown on samples in chronological order).
C25_WeightedTimeWithinPeriod ==
    (pc = "done" /\ local.parseOk /\ chronological)
        => ~U32Less(coveredSeconds, weightedSeconds)

\* the table of the whole text, its last line included when no newline
\* ends it
wholeTable ==
    table(IF newlineEnded THEN csvData ELSE csvData \o <<"\n">>)

\* C26: every non-blank, non-comment data row with a positive timestamp
\* that follows a valid header is emitted as a sample, the final row too
\* when no newline ends it: each such row has its sample, and there are at
\* least as many samples as such rows.
C26_EveryPositiveRowEmitted ==
    \A t \in {wholeTable} :
        (pc = "done" /\ tableComplete(t))
            => \A rows \in {positiveRows(t)} :
                   /\ Len(local.samples) >= Len(rows)
                   /\ \A k \in 1..Len(rows) :
                          timestampOf(t, rows[k]) \in timestamps

\* the capacity before the last capacity change: the model's intervals give
\* two capacities, 10 and 12
capacityBefore ==
    CHOOSE c \in {calculateBufferSize(s) : s \in Intervals} : c # _bufferSize

\* the last capacity change was made on a full window
changedWhenFull ==
    lastResize # "none" /\ Len(heldAtResize) = capacityBefore

\* the values of the whole stream that the buffer should hold after a
\* capacity change on a full window and sinceResize further addSample calls
recentOfStream ==
    LastN(fed, Min(Min(Len(heldAtResize), _bufferSize) + sinceResize,
                   _bufferSize))

\* C27: after updateSamplingInterval changes the capacity of a full window,
\* each later addSample on a full buffer evicts the oldest value still
\* held: after k further calls the buffer holds exactly the most recent
\* min(retained + k, newCapacity) values of the whole stream, and
\* getCurrentTWA() is their mean, to within the rounding of a float
\* summation.
C27_RecentValuesAfterChange ==
    (pc = "fast" /\ changedWhenFull)
        => /\ held = recentOfStream
           /\ getCurrentTWA[2] = Len(recentOfStream)
           /\ Abs(getCurrentTWA[1] - SumSeq(recentOfStream))
                  <= FloatSumError(recentOfStream)

\* a header with exactly one column for the timestamp and for each
\* requested parameter
headerValid(t) ==
    \A n \in {"timestamp"} \cup {params[p] : p \in 1..Len(params)} :
        Cardinality({k \in 1..Len(t.header) : t.header[k] = <<n>>}) = 1

\* the data rows that reach the timestamp column
reachingRows(t) ==
    {r \in 1..Len(t.rows) : Len(t.rows[r]) >= columnNamed(t, "timestamp")}

\* C28: a data row with fewer fields than the position of the timestamp
\* column is never emitted as a sample (the samples are those of the rows
\* that reach the column and spell a timestamp other than 0), and parsing
\* the same text again yields the same sample sequence.
C28_TruncatedRowNeverEmitted ==
    \A t \in {table(csvData)} :
        (pc = "done" /\ headerValid(t))
            => /\ Len(local.samples)
                    = Cardinality({r \in reachingRows(t) :
                                      timestampOf(t, r) # 0})
               /\ local.samples
                    = parseDataPoints(csvData, params, FALSE, 0).samples

\* C29: updateSamplingInterval with a new interval that yields the same
\* capacity as before leaves the held values, their order, the write index,
\* the running sum and hasValidTWA() unchanged.
C29_SameCapacityChangesNothing ==
    [][(nUpdate' = nUpdate + 1 /\ _bufferSize' = _bufferSize)
           => /\ _buffer' = _buffer
              /\ _bufferIndex' = _bufferIndex
              /\ _sum' = _sum
              /\ hasValidTWA' = hasValidTWA]_vars

\* an interval change at the same capacity was made, and the full buffer
\* is wrapped
C29_Witness ==
    /\ nUpdate = 1 /\ lastResize = "none"
    /\ _samplingInterval = 3000
    /\ hasValidTWA /\ _bufferIndex > 0
    /\ Len(fed) = MaxSamples

\* C30: in every reachable state the write index _bufferIndex is smaller
\* than the capacity and, when the buffer is full, smaller than the number
\* of held values, so that addSample reads and writes inside the buffer;
\* while the buffer is not full the index is 0.
C30_IndexInsideBuffer ==
    pc = "fast"
        => /\ 0 <= _bufferIndex /\ _bufferIndex < _bufferSize
           /\ _bufferFull => _bufferIndex < Len(_buffer)
           /\ ~_bufferFull => _bufferIndex = 0

\* the index has wrapped to 0 and advanced again
C30_Witness ==
    /\ _bufferFull
    /\ _bufferSize = 10
    /\ Len(fed) > 2 * _bufferSize
    /\ lastResize = "none"
    /\ _bufferIndex = Len(fed) - 2 * _bufferSize
====
